---------------------------- MODULE Spec2Model ----------------------------
(***************************************************************************)
(* State-machine model of src/adapters/simpleuploadadapter.js: the         *)
(* SimpleUploadAdapter plugin (init) and the Adapter it registers (upload, *)
(* abort), together with the collaborators the adapter drives: the         *)
(* loader's file promise, the AbortController created by each upload()     *)
(* call, and the fetch transport.                                          *)
(*                                                                         *)
(* upload() is an async function.  It runs synchronously up to its first   *)
(* await (line 128) and is resumed when the awaited promise settles: the   *)
(* loader's file (lines 128-134), fetch's response (lines 130-135), the    *)
(* parsed body (lines 135-139).  Each of the four pieces is one action.    *)
(***************************************************************************)
EXTENDS Naturals, Sequences, FiniteSets

VARIABLES
    config,           \* editor.config.get( 'simpleUpload' ): NoOptions or an options object
    pluginState,      \* "constructed" | "initialized": whether init() has run
    warnings,         \* number of console.warn calls made by init()
    factory,          \* FileRepository.createUploadAdapter: NoFactory or the closure of line 81
    adapters,         \* the Adapter instances built so far, in creation order
    loaderFile,       \* per adapter, the state of its loader's file promise
    controllers,      \* the AbortController objects built so far, in creation order
    calls,            \* the upload() calls made so far, in call order
    transport,        \* per upload() call, what the fetch transport saw of it
    op                \* the step just taken: the operation, its inputs, whether it threw

vars == << config, pluginState, warnings, factory, adapters, loaderFile,
           controllers, calls, transport, op >>

---------------------------------------------------------------------------
(* Bounds of the model. *)

MaxAdapters == 2
MaxCalls == 2

---------------------------------------------------------------------------
(* JavaScript values. *)

Undefined == "undefined"

\* !v for the values a configuration field takes: undefined and the empty
\* string are falsy, every other string is truthy.
Truthy(v) == v \notin { Undefined, "" }

UploadUrls == { Undefined, "", "https://example.com/upload" }
CloudinaryUrls == { Undefined, "https://api.cloudinary.com/v1_1/demo/image/upload" }
Presets == { "preset" }

\* config.get( 'simpleUpload' ) when the configuration block is absent.
NoOptions == [ absent |-> TRUE ]

Options == [ uploadUrl : UploadUrls,
             CLOUDINARY_UPLOAD_URL : CloudinaryUrls,
             CLOUDINARY_UPLOAD_PRESET : Presets ]

Configs == { NoOptions } \cup Options

NoFactory == [ registered |-> FALSE ]

\* this.abortController of an instance on which upload() never ran.
NoController == 0

---------------------------------------------------------------------------
(* The transport's answers. *)

SecureUrls == { "https://cdn.example.com/x.png", "https://cdn.example.com/y.png" }

\* Response bodies: text that is not JSON, the JSON value null, and JSON
\* objects with or without the fields url and secure_url.
NoBody == [ kind |-> "none" ]
Malformed == [ kind |-> "malformed" ]
JsonNull == [ kind |-> "null" ]
JsonObject(u, s) == [ kind |-> "object", url |-> u, secure_url |-> s ]

Bodies == { Malformed, JsonNull, JsonObject(Undefined, Undefined) }
            \cup { JsonObject("http://cdn.example.com/plain.png", s) : s \in SecureUrls }

Statuses == { 200, 500 }

NoResponse == [ kind |-> "none" ]
NetworkError == [ kind |-> "network-error" ]
Response(status) == [ kind |-> "response", status |-> status ]

FetchResults == { NetworkError } \cup { Response(s) : s \in Statuses }

\* How an upload() promise stands.
Pending == [ kind |-> "pending" ]
Resolved(v) == [ kind |-> "resolved", value |-> v ]
Rejected(e) == [ kind |-> "rejected", error |-> e ]

\* A step: the operation, the instance and the upload() call it is about,
\* whether it threw, and what the environment handed to it.
Op(name, inst, call, threw, response, body) ==
    [ name |-> name, inst |-> inst, call |-> call, threw |-> threw,
      response |-> response, body |-> body ]

---------------------------------------------------------------------------

Init ==
    /\ config \in Configs
    /\ pluginState = "constructed"
    /\ warnings = 0
    /\ factory = NoFactory
    /\ adapters = << >>
    /\ loaderFile = << >>
    /\ controllers = << >>
    /\ calls = << >>
    /\ transport = << >>
    /\ op = Op("new", 0, 0, FALSE, NoResponse, NoBody)

\* init() as it would be if it required the field upload() sends to.
initRequiringCloudinaryUrl ==
    /\ pluginState = "constructed"
    /\ pluginState' = "initialized"
    /\ IF config = NoOptions
       THEN UNCHANGED << warnings, factory >>
       ELSE IF ~Truthy(config.CLOUDINARY_UPLOAD_URL)
       THEN /\ warnings' = warnings + 1
            /\ UNCHANGED factory
       ELSE /\ factory' = [ registered |-> TRUE, options |-> config ]
            /\ UNCHANGED warnings
    /\ op' = Op("init", 0, 0, FALSE, NoResponse, NoBody)
    /\ UNCHANGED << config, adapters, loaderFile, controllers, calls, transport >>

(***************************************************************************)
(* SimpleUploadAdapter.init(), lines 59-84.                                *)
(***************************************************************************)
init ==
    /\ pluginState = "constructed"
    /\ pluginState' = "initialized"
    /\ LET options == config IN
       IF options = NoOptions
       THEN \* line 62: if ( !options ) return
            UNCHANGED << warnings, factory >>
       ELSE IF ~Truthy(options.uploadUrl)
       THEN \* lines 66-79: warn once and return
            /\ warnings' = warnings + 1
            /\ UNCHANGED factory
       ELSE \* lines 81-83: register the factory, closed over options
            /\ factory' = [ registered |-> TRUE, options |-> options ]
            /\ UNCHANGED warnings
    /\ op' = Op("init", 0, 0, FALSE, NoResponse, NoBody)
    /\ UNCHANGED << config, adapters, loaderFile, controllers, calls, transport >>

(***************************************************************************)
(* new Adapter( loader, options ), lines 100-114: the instance keeps the   *)
(* loader and the options; abortController is not set.                     *)
(***************************************************************************)
Adapter(loader, options) ==
    [ loader |-> loader, options |-> options, abortController |-> NoController ]

(***************************************************************************)
(* The factory registered at lines 81-83, called by the host's file        *)
(* repository with a loader of its own: it returns a new Adapter, here     *)
(* the next index of adapters.                                             *)
(***************************************************************************)
createUploadAdapter ==
    /\ factory # NoFactory
    /\ Len(adapters) < MaxAdapters
    /\ LET loader == Len(loaderFile) + 1 IN
       /\ loaderFile' = Append(loaderFile, "pending")
       /\ adapters' = Append(adapters, Adapter(loader, factory.options))
    /\ op' = Op("createUploadAdapter", Len(adapters) + 1, 0, FALSE, NoResponse, NoBody)
    /\ UNCHANGED << config, pluginState, warnings, factory, controllers, calls, transport >>

\* A call's promise settles.
Settle(call, outcome) ==
    [ call EXCEPT !.phase = "settled", !.response = NoResponse, !.outcome = outcome ]

\* upload() as it would be if it kept an AbortController the instance
\* already has (this.abortController = this.abortController || new ...).
uploadReusingController(a) ==
    /\ Len(calls) < MaxCalls
    /\ LET fresh == adapters[a].abortController = NoController
           k == IF fresh THEN Len(controllers) + 1 ELSE adapters[a].abortController
       IN
       /\ controllers' = IF fresh THEN Append(controllers, [ aborted |-> FALSE ])
                                  ELSE controllers
       /\ adapters' = [ adapters EXCEPT ![a].abortController = k ]
       /\ calls' = Append(calls, [ inst |-> a, signal |-> k, phase |-> "file",
                                   response |-> NoResponse, outcome |-> Pending ])
    /\ transport' = Append(transport, [ posts |-> 0, url |-> Undefined, method |-> Undefined,
                                        abortedAtFetch |-> FALSE, signals |-> 0 ])
    /\ op' = Op("upload", a, Len(calls) + 1, FALSE, NoResponse, NoBody)
    /\ UNCHANGED << config, pluginState, warnings, factory, loaderFile >>

(***************************************************************************)
(* upload() up to its first await, lines 122-128: a new AbortController    *)
(* replaces this.abortController, its signal is kept for the request,      *)
(* and the call waits for this.loader.file.                                *)
(***************************************************************************)
upload(a) ==
    /\ Len(calls) < MaxCalls
    /\ LET k == Len(controllers) + 1 IN
       /\ controllers' = Append(controllers, [ aborted |-> FALSE ])
       /\ adapters' = [ adapters EXCEPT ![a].abortController = k ]
       /\ calls' = Append(calls, [ inst |-> a, signal |-> k, phase |-> "file",
                                   response |-> NoResponse, outcome |-> Pending ])
    /\ transport' = Append(transport, [ posts |-> 0, url |-> Undefined, method |-> Undefined,
                                        abortedAtFetch |-> FALSE, signals |-> 0 ])
    /\ op' = Op("upload", a, Len(calls) + 1, FALSE, NoResponse, NoBody)
    /\ UNCHANGED << config, pluginState, warnings, factory, loaderFile >>


(***************************************************************************)
(* The loader's file promise settles, if it has not yet, and upload()      *)
(* resumes after await this.loader.file, lines 128-134.  A rejected file   *)
(* promise rejects the call before fetch is reached.  Otherwise fetch is   *)
(* called with the options' CLOUDINARY_UPLOAD_URL and the signal: fetch    *)
(* with a signal that is already aborted sends nothing and rejects with    *)
(* an AbortError; otherwise the POST goes out.                             *)
(***************************************************************************)
uploadAfterFile(c, file) ==
    LET a == calls[c].inst
        loader == adapters[a].loader
        url == adapters[a].options.CLOUDINARY_UPLOAD_URL
    IN
    /\ calls[c].phase = "file"
    /\ loaderFile[loader] \in { "pending", file }
    /\ loaderFile' = [ loaderFile EXCEPT ![loader] = file ]
    /\ IF file = "rejected"
       THEN /\ calls' = [ calls EXCEPT ![c] = Settle(@, Rejected("FileError")) ]
            /\ UNCHANGED transport
       ELSE IF controllers[calls[c].signal].aborted
       THEN /\ calls' = [ calls EXCEPT ![c] = Settle(@, Rejected("AbortError")) ]
            /\ transport' = [ transport EXCEPT ![c].abortedAtFetch = TRUE,
                                               ![c].signals = @ + 1 ]
       ELSE /\ calls' = [ calls EXCEPT ![c].phase = "fetch" ]
            /\ transport' = [ transport EXCEPT ![c].posts = @ + 1,
                                               ![c].url = url,
                                               ![c].method = "POST" ]
    /\ op' = Op("loader.file", a, c, FALSE, NoResponse, NoBody)
    /\ UNCHANGED << config, pluginState, warnings, factory, adapters, controllers >>

\* The fetch step as it would be if a network failure were retried once.
FetchSettlesRetrying(c, r) ==
    /\ calls[c].phase = "fetch"
    /\ IF r = NetworkError /\ transport[c].posts < 2
       THEN /\ transport' = [ transport EXCEPT ![c].posts = @ + 1 ]
            /\ UNCHANGED calls
       ELSE IF r = NetworkError
       THEN /\ calls' = [ calls EXCEPT ![c] = Settle(@, Rejected("TypeError")) ]
            /\ UNCHANGED transport
       ELSE /\ calls' = [ calls EXCEPT ![c].phase = "json", ![c].response = r ]
            /\ UNCHANGED transport
    /\ op' = Op("fetch", calls[c].inst, c, FALSE, r, NoBody)
    /\ UNCHANGED << config, pluginState, warnings, factory, adapters, loaderFile,
                    controllers >>

(***************************************************************************)
(* The fetch promise settles, line 130: a network failure rejects it, and  *)
(* the call with it; any HTTP response, whatever its status, fulfils it,   *)
(* and the call goes on to read the body (line 135).                       *)
(***************************************************************************)
FetchSettles(c, r) ==
    /\ calls[c].phase = "fetch"
    /\ IF r = NetworkError
       THEN calls' = [ calls EXCEPT ![c] = Settle(@, Rejected("TypeError")) ]
       ELSE calls' = [ calls EXCEPT ![c].phase = "json", ![c].response = r ]
    /\ op' = Op("fetch", calls[c].inst, c, FALSE, r, NoBody)
    /\ UNCHANGED << config, pluginState, warnings, factory, adapters, loaderFile,
                    controllers, transport >>

\* res.json(): a SyntaxError for text that is not JSON, the parsed value otherwise.
json(body) ==
    IF body.kind = "malformed"
    THEN [ ok |-> FALSE, error |-> "SyntaxError" ]
    ELSE [ ok |-> TRUE, value |-> body ]

\* The result as it would be if it were read from the body's url field.
UploadResultFromUrl(value) == [ default |-> value.url ]

\* Lines 135-139 on a parsed object: { default: secure_url }.
UploadResult(value) == [ default |-> value.secure_url ]

\* The end of upload() as it would be if a failed parse were caught and an
\* empty result returned.
AfterJsonSwallowing(parsed) ==
    IF ~parsed.ok THEN Resolved([ default |-> Undefined ])
    ELSE IF parsed.value.kind = "null" THEN Rejected("TypeError")
    ELSE Resolved(UploadResult(parsed.value))

\* Lines 135-139 on a settled res.json(): a rejection is passed on;
\* destructuring null throws a TypeError; an object gives the result, with
\* an undefined secure_url when it has none.
AfterJson(parsed) ==
    IF ~parsed.ok THEN Rejected(parsed.error)
    ELSE IF parsed.value.kind = "null" THEN Rejected("TypeError")
    ELSE Resolved(UploadResult(parsed.value))

(***************************************************************************)
(* The body arrives, res.json() settles and upload() resumes, lines        *)
(* 135-139.                                                                *)
(***************************************************************************)
uploadAfterJson(c, body) ==
    /\ calls[c].phase = "json"
    /\ calls' = [ calls EXCEPT ![c] = Settle(@, AfterJson(json(body))) ]
    /\ op' = Op("res.json", calls[c].inst, c, FALSE, calls[c].response, body)
    /\ UNCHANGED << config, pluginState, warnings, factory, adapters, loaderFile,
                    controllers, transport >>

\* The calls whose request an abort of controller k ends: those holding k's
\* signal with the request in flight or the body being read.  Aborting a
\* signal that is already aborted does nothing.
Cancelled(k) ==
    { c \in 1..Len(calls) : /\ calls[c].signal = k
                            /\ ~controllers[k].aborted
                            /\ calls[c].phase \in { "fetch", "json" } }

\* abort() as it would be if the controller were kept in one variable
\* shared by all instances: it aborts the controller made last.
abortShared(a) ==
    LET k == Len(controllers) IN
    /\ IF k = NoController
       THEN /\ op' = Op("abort", a, 0, TRUE, NoResponse, NoBody)
            /\ UNCHANGED << controllers, calls, transport >>
       ELSE /\ op' = Op("abort", a, 0, FALSE, NoResponse, NoBody)
            /\ controllers' = [ controllers EXCEPT ![k].aborted = TRUE ]
            /\ calls' = [ c \in 1..Len(calls) |->
                            IF c \in Cancelled(k)
                            THEN Settle(calls[c], Rejected("AbortError"))
                            ELSE calls[c] ]
            /\ transport' = [ c \in 1..Len(calls) |->
                                IF c \in Cancelled(k)
                                THEN [ transport[c] EXCEPT !.signals = @ + 1 ]
                                ELSE transport[c] ]
    /\ UNCHANGED << config, pluginState, warnings, factory, adapters, loaderFile >>

(***************************************************************************)
(* abort(), lines 148-150: this.abortController.abort().  With no          *)
(* abortController the property access throws a TypeError.  Otherwise the  *)
(* controller's signal is aborted: the request that holds the signal is    *)
(* told, once, and its promise rejects with an AbortError.                 *)
(***************************************************************************)
abort(a) ==
    LET k == adapters[a].abortController IN
    /\ IF k = NoController
       THEN /\ op' = Op("abort", a, 0, TRUE, NoResponse, NoBody)
            /\ UNCHANGED << controllers, calls, transport >>
       ELSE /\ op' = Op("abort", a, 0, FALSE, NoResponse, NoBody)
            /\ controllers' = [ controllers EXCEPT ![k].aborted = TRUE ]
            /\ calls' = [ c \in 1..Len(calls) |->
                            IF c \in Cancelled(k)
                            THEN Settle(calls[c], Rejected("AbortError"))
                            ELSE calls[c] ]
            /\ transport' = [ c \in 1..Len(calls) |->
                                IF c \in Cancelled(k)
                                THEN [ transport[c] EXCEPT !.signals = @ + 1 ]
                                ELSE transport[c] ]
    /\ UNCHANGED << config, pluginState, warnings, factory, adapters, loaderFile >>

Next ==
    \/ init
    \/ createUploadAdapter
    \/ \E a \in 1..Len(adapters) : upload(a)
    \/ \E c \in 1..Len(calls) : \E file \in { "fulfilled", "rejected" } :
          uploadAfterFile(c, file)
    \/ \E c \in 1..Len(calls) : \E r \in FetchResults : FetchSettles(c, r)
    \/ \E c \in 1..Len(calls) : \E body \in Bodies : uploadAfterJson(c, body)
    \/ \E a \in 1..Len(adapters) : abort(a)

Spec == Init /\ [][Next]_vars

---------------------------------------------------------------------------
(* Vocabulary of the properties. *)

AdapterIds == 1..Len(adapters)
CallIds == 1..Len(calls)

IsSettled(c) == calls[c].phase = "settled"

\* The instance has an upload() call that has not settled.
Outstanding(a) == \E c \in CallIds : calls[c].inst = a /\ ~IsSettled(c)

CallsOf(a) == { c \in CallIds : calls[c].inst = a }

\* The most recent upload() call of an instance that has one.
LatestCall(a) == CHOOSE c \in CallsOf(a) : \A d \in CallsOf(a) : d <= c

\* Response.ok: a status in the range 200-299.
IsSuccess(status) == status \in 200..299

\* The configuration block has no usable uploadUrl: the field is undefined
\* or empty, which is what init()'s warning calls missing.
LacksUploadUrl(options) == options.uploadUrl = Undefined \/ options.uploadUrl = ""

---------------------------------------------------------------------------
(* C1.  abort() on an instance with no outstanding request is a no-op: it  *)
(* throws nothing and changes no call and no request.  Stated of every     *)
(* abort() step taken while the instance has no unsettled upload() call.   *)
C1_AbortWithoutRequestIsNoOp ==
    [][ \A a \in AdapterIds :
          (op'.name = "abort" /\ op'.inst = a /\ ~Outstanding(a))
             => (~op'.threw /\ calls' = calls /\ transport' = transport) ]_vars

(* C2.  A response with a non-success status makes upload() reject,        *)
(* whatever the body: stated of the call once the body has been read.      *)
C2_NonSuccessStatusRejects ==
    (op.name = "res.json" /\ ~IsSuccess(op.response.status))
       => calls[op.call].outcome.kind = "rejected"

(* C3.  abort() while an upload() call is pending makes that call settle   *)
(* as aborted, with the transport told exactly once.  Stated of the        *)
(* instance's most recent call (the only one in a supported sequence):     *)
(* an abort() step signals the call's request and leaves the call aborted  *)
(* or still waiting for the file; a pending call whose request has been    *)
(* signalled settles as aborted, the transport having been told once.      *)
C3_AbortSettlesPendingCallAsAborted ==
    [][ \A c \in CallIds :
          /\ (/\ op'.name = "abort"
              /\ op'.inst = calls[c].inst
              /\ c = LatestCall(calls[c].inst)
              /\ ~IsSettled(c))
                => /\ ~op'.threw
                   /\ controllers'[calls[c].signal].aborted
                   /\ \/ calls'[c].outcome = Rejected("AbortError")
                      \/ calls'[c].phase = "file"
          /\ (/\ ~IsSettled(c)
              /\ controllers[calls[c].signal].aborted
              /\ calls'[c].phase = "settled")
                => /\ calls'[c].outcome = Rejected("AbortError")
                   /\ transport'[c].signals = 1
          /\ transport'[c].signals <= 1 ]_vars

(* C4.  Once init() has run: a factory is registered if and only if the    *)
(* configuration block is present and has its uploadUrl; with no block     *)
(* nothing is registered and nothing logged; with a block that lacks       *)
(* uploadUrl nothing is registered and exactly one warning is logged;      *)
(* init() never throws.                                                    *)
C4_InitRegistersIffEndpointPresent ==
    pluginState # "constructed" =>
       /\ pluginState = "initialized"
       /\ (op.name = "init" => ~op.threw)
       /\ (factory # NoFactory) <=> (config # NoOptions /\ ~LacksUploadUrl(config))
       /\ config = NoOptions => (factory = NoFactory /\ warnings = 0)
       /\ (config # NoOptions /\ LacksUploadUrl(config))
             => (factory = NoFactory /\ warnings = 1)
       /\ factory # NoFactory => (factory.options = config /\ warnings = 0)

C4_Witness ==
    /\ pluginState = "initialized"
    /\ config # NoOptions
    /\ config.uploadUrl = Undefined
    /\ factory = NoFactory
    /\ warnings = 1

(* C5, as claimed.  Every upload() call that has settled has issued        *)
(* exactly one POST.                                                       *)
C5_ExactlyOnePostPerSettledCall ==
    \A c \in CallIds : IsSettled(c) => transport[c].posts = 1

(* C5, amended.  No upload() call issues more than one POST; a call that   *)
(* is waiting for the response or the body has issued one; a call that     *)
(* has settled has issued one, except that it has issued none when the     *)
(* loader's file failed or the signal was aborted before fetch was         *)
(* called.                                                                 *)
C5_AtMostOnePost ==
    \A c \in CallIds :
       /\ transport[c].posts <= 1
       /\ transport[c].posts = 1 => transport[c].method = "POST"
       /\ calls[c].phase = "file" => transport[c].posts = 0
       /\ calls[c].phase \in { "fetch", "json" } => transport[c].posts = 1
       /\ IsSettled(c) =>
             transport[c].posts =
                IF \/ loaderFile[adapters[calls[c].inst].loader] = "rejected"
                   \/ transport[c].abortedAtFetch
                THEN 0 ELSE 1

C5_Witness ==
    \E c \in CallIds :
       /\ IsSettled(c)
       /\ calls[c].outcome = Rejected("FileError")
       /\ transport[c].posts = 0

(* C6.  Every call of the factory returns an instance that is not one of   *)
(* the earlier ones, leaves those as they are and starts with no upload    *)
(* state; and an upload() or abort() on one instance changes no other      *)
(* instance, none of another instance's calls, and neither the request     *)
(* nor the controller of any of them.                                      *)
C6_InstancesDistinctAndIndependent ==
    [][ /\ op'.name = "createUploadAdapter" =>
             /\ op'.inst \notin AdapterIds
             /\ op'.inst \in 1..Len(adapters')
             /\ adapters'[op'.inst].abortController = NoController
             /\ \A b \in AdapterIds : adapters'[b] = adapters[b]
        /\ op'.name \in { "upload", "abort" } =>
             /\ \A b \in AdapterIds : b # op'.inst => adapters'[b] = adapters[b]
             /\ \A c \in CallIds :
                   calls[c].inst # op'.inst =>
                      /\ calls'[c] = calls[c]
                      /\ transport'[c] = transport[c]
                      /\ controllers'[calls[c].signal] = controllers[calls[c].signal] ]_vars

C6_Witness ==
    \E c \in CallIds : \E d \in CallIds :
       /\ calls[c].inst # calls[d].inst
       /\ op.name = "abort"
       /\ op.inst = calls[c].inst
       /\ calls[c].outcome = Rejected("AbortError")
       /\ calls[d].phase = "fetch"
       /\ ~controllers[calls[d].signal].aborted
       /\ transport[d].signals = 0

(* C7.  When the response has a success status and its body is a JSON      *)
(* object with secure_url u, upload() resolves to the mapping with the     *)
(* single key "default" and the value u.                                   *)
C7_ResolvesToSecureUrl ==
    (/\ op.name = "res.json"
     /\ IsSuccess(op.response.status)
     /\ op.body.kind = "object"
     /\ op.body.secure_url \in SecureUrls)
       => /\ IsSettled(op.call)
          /\ calls[op.call].outcome.kind = "resolved"
          /\ DOMAIN calls[op.call].outcome.value = { "default" }
          /\ calls[op.call].outcome.value.default = op.body.secure_url

C7_Witness ==
    /\ op.name = "res.json"
    /\ op.response = Response(200)
    /\ op.body.kind = "object"
    /\ op.body.secure_url = "https://cdn.example.com/x.png"
    /\ calls[op.call].outcome = Resolved([ default |-> "https://cdn.example.com/x.png" ])

(* C8.  A network failure of the request, and a body that is not JSON,     *)
(* make upload() reject with that failure: the call settles rejected,      *)
(* with the transport's TypeError or the parser's SyntaxError, and with    *)
(* no result.                                                              *)
C8_FailuresAreRejections ==
    /\ (op.name = "fetch" /\ op.response = NetworkError)
          => /\ IsSettled(op.call)
             /\ calls[op.call].outcome = Rejected("TypeError")
    /\ (op.name = "res.json" /\ op.body = Malformed)
          => /\ IsSettled(op.call)
             /\ calls[op.call].outcome = Rejected("SyntaxError")

C8_Witness ==
    /\ op.name = "res.json"
    /\ op.body = Malformed
    /\ calls[op.call].outcome = Rejected("SyntaxError")

(* C9.  The endpoint init() requires is the one upload() sends to: every   *)
(* POST of an adapter built by the registered factory goes to an endpoint  *)
(* that is defined in the configuration, and init() accepts every          *)
(* configuration that defines the endpoint upload() sends to.              *)
C9_RequiredEndpointIsTheTarget ==
    /\ \A c \in CallIds : transport[c].posts >= 1 => Truthy(transport[c].url)
    /\ (/\ pluginState = "initialized"
        /\ config # NoOptions
        /\ Truthy(config.CLOUDINARY_UPLOAD_URL))
          => factory # NoFactory

(* C10.  An instance holds one cancellation handle, the controller of its  *)
(* most recent upload() call; an abort() on the instance changes none of   *)
(* its earlier calls, nor their requests, nor their controllers: an        *)
(* earlier call that is outstanding is not aborted, by this abort() or     *)
(* any later one.                                                          *)
C10_AbortReachesOnlyTheLatestCall ==
    /\ [](\A a \in AdapterIds :
            IF CallsOf(a) = {}
            THEN adapters[a].abortController = NoController
            ELSE adapters[a].abortController = calls[LatestCall(a)].signal)
    /\ [][ \A c \in CallIds :
             (op'.name = "abort" /\ op'.inst = calls[c].inst
                                 /\ c # LatestCall(calls[c].inst))
                => /\ calls'[c] = calls[c]
                   /\ transport'[c] = transport[c]
                   /\ controllers'[calls[c].signal] = controllers[calls[c].signal] ]_vars

C10_Witness ==
    \E c \in CallIds : \E d \in CallIds :
       /\ c < d
       /\ calls[c].inst = calls[d].inst
       /\ op.name = "abort"
       /\ op.inst = calls[d].inst
       /\ calls[d].outcome = Rejected("AbortError")
       /\ transport[d].signals = 1
       /\ calls[c].phase = "fetch"
       /\ ~controllers[calls[c].signal].aborted
       /\ transport[c].signals = 0

=============================================================================
